---- MODULE Spec2Model ----
(***************************************************************************)
(* Model of src/main.py of bcosynot/ouch: the POST /owie/{body_part}       *)
(* handler log_owie, the retry loop of get_weather_data and the insert     *)
(* into the owie_logs table.                                               *)
(*                                                                         *)
(* A process is one invocation: an HTTP request handled by log_owie (Spec) *)
(* or a direct call of the module-level coroutine get_weather_data         *)
(* (SpecGW).  The coroutines run on one event loop, so a step of the model *)
(* is the code between two await points (client.get, asyncio.sleep).       *)
(*                                                                         *)
(* Time is counted in units of 1/Second s.  A JSON value that may be      *)
(* absent is a sequence: <<>> is Python's None, <<v>> is the value v.      *)
(***************************************************************************)
EXTENDS Integers, Sequences, FiniteSets, TLC

\* ------------------------------------------------------------------ bounds
MaxCalls == 2
Procs == 1..MaxCalls

\* ------------------------------------------------------- program constants
Second == 4
Retries == 5
InitialBackoff == 1 * Second
JitterMax == Second \div 2
None == <<>>

Some(v) == <<v>>

\* ------------------------------------------------------------------ inputs
ApiKeys == {"", "key"}
BodyParts == {"knee", "back"}

EmptyDict ==
    [dt |-> None, temp |-> None, pressure |-> None, humidity |-> None,
     uvi |-> None, rain_1h |-> None, snow_1h |-> None,
     has_weather |-> FALSE, weather |-> <<>>]

EmptyWeatherItem == [id |-> None, main |-> None, description |-> None]

Clear == [id |-> Some(800), main |-> Some("Clear"), description |-> Some("clear sky")]
Rain == [id |-> Some(500), main |-> Some("Rain"), description |-> Some("light rain")]
Snow == [id |-> Some(600), main |-> Some("Snow"), description |-> Some("light snow")]

BodyClear ==
    [current |-> [dt |-> Some(100), temp |-> Some(72), pressure |-> Some(1013),
                  humidity |-> Some(40), uvi |-> Some(6), rain_1h |-> None,
                  snow_1h |-> None, has_weather |-> TRUE, weather |-> <<Clear>>]]
BodySnow ==
    [current |-> [dt |-> Some(300), temp |-> Some(0), pressure |-> Some(990),
                  humidity |-> Some(80), uvi |-> Some(0), rain_1h |-> Some(0),
                  snow_1h |-> Some(3), has_weather |-> TRUE, weather |-> <<Snow, Rain>>]]
BodyNoTemp ==
    [current |-> [dt |-> Some(400), temp |-> None, pressure |-> Some(1013),
                  humidity |-> Some(40), uvi |-> Some(6), rain_1h |-> None,
                  snow_1h |-> None, has_weather |-> TRUE, weather |-> <<Clear>>]]
BodyEmptyWeatherList ==
    [current |-> [dt |-> Some(600), temp |-> Some(72), pressure |-> Some(1013),
                  humidity |-> Some(40), uvi |-> Some(6), rain_1h |-> None,
                  snow_1h |-> None, has_weather |-> TRUE, weather |-> <<>>]]
\* A body without the key "current": what the handler sees of an error body.
BodyNoCurrent == [current |-> EmptyDict]

OkBodies ==
    {BodyClear, BodySnow, BodyNoTemp, BodyEmptyWeatherList}

NoResponse == [status_code |-> 0, json |-> BodyNoCurrent]

\* What one awaited client.get can produce: a response or httpx.RequestError.
GetOutcomes ==
    {[kind |-> "response", status_code |-> 200, json |-> b] : b \in OkBodies}
    \cup {[kind |-> "response", status_code |-> s, json |-> BodyNoCurrent] : s \in {429, 500}}
    \cup {[kind |-> "RequestError", status_code |-> 0, json |-> BodyNoCurrent]}

DbOutcomes == {"ok", "setup_error", "commit_error"}

SettingsCandidates ==
    [ow_api_key : ApiKeys, db_path : {"", "data/data.db"}, lat : {0, 40}, lon : {0, 74}]

VARIABLES
    settings,       \* the Settings object
    pc,             \* where each process stands
    caller,         \* "none", "direct" or "log_owie"
    body_part,      \* path parameter of the request
    api_key,        \* argument of get_weather_data
    attempt,        \* loop variable of get_weather_data
    backoff,        \* local backoff, quarters of a second
    sleepFor,       \* argument of the pending asyncio.sleep, quarters of a second
    response,       \* last response received
    gw,             \* how get_weather_data ended
    result,         \* how log_owie ended
    owie_logs,      \* rows of table owie_logs
    tableExists,    \* whether setup_database has created the table
    clients,        \* history: AsyncClient objects opened by the process
    gets,           \* history: GET requests issued by the process
    sleeps,         \* history: base duration of every sleep of the process
    outcomes,       \* history: outcome of every attempt of the process
    gwCalls,        \* history: get_weather_data calls made by log_owie
    rowId           \* history: ids of the rows the process committed

gwVars == <<api_key, attempt, backoff, sleepFor, response, gw, clients, gets, sleeps, outcomes>>
dbVars == <<owie_logs, tableExists, rowId>>
vars == <<settings, pc, caller, body_part, api_key, attempt, backoff, sleepFor,
          response, gw, result, owie_logs, tableExists, clients, gets, sleeps,
          outcomes, gwCalls, rowId>>

\* ----------------------------------------------------------------- helpers
FalsyStr(v) == v = ""
FalsyNum(v) == v = 0

missing_keys(s) ==
    (IF FalsyStr(s.ow_api_key) THEN {"ow_api_key"} ELSE {})
    \cup (IF FalsyNum(s.lat) THEN {"lat"} ELSE {})
    \cup (IF FalsyNum(s.lon) THEN {"lon"} ELSE {})

validate_settings(s) == missing_keys(s) = {}

SettingsMissing(s) ==
    FalsyStr(s.ow_api_key) \/ FalsyStr(s.db_path) \/ FalsyNum(s.lat) \/ FalsyNum(s.lon)

ApiKeyAlwaysPresent(key) == FALSE
ApiKeyMissing(key) == key = ""

LastAttemptOffByOne(a) == a = Retries + 1
LastAttempt(a) == a = Retries

NextBackoffLinear(b) == b + InitialBackoff
NextBackoff(b) == b * 2

Jitters == 0..JitterMax

GwPending == [kind |-> "pending", value |-> BodyNoCurrent]
GwReturn(b) == [kind |-> "returned", value |-> b]
GwReturnNone == [kind |-> "returned_none", value |-> BodyNoCurrent]
GwRaise(e) == [kind |-> e, value |-> BodyNoCurrent]

NoResult ==
    [kind |-> "none", status |-> 0, body_part |-> None, temperature |-> None, pressure |-> None]
ErrorResult ==
    [kind |-> "error", status |-> 400, body_part |-> None, temperature |-> None, pressure |-> None]
Raised(e) ==
    [kind |-> e, status |-> 500, body_part |-> None, temperature |-> None, pressure |-> None]
Success(bp, t, pr) ==
    [kind |-> "success", status |-> 200, body_part |-> Some(bp), temperature |-> t, pressure |-> pr]

\* current_weather.get("weather", [{}])
WeatherList(cur) == IF cur.has_weather THEN cur.weather ELSE <<EmptyWeatherItem>>

\* d.get("1h", 0.0)
OneHour(v) == IF v = None THEN Some(0) ELSE v

\* rain 1h or snow 1h
Precipitation(cur) ==
    IF OneHour(cur.rain_1h) # Some(0) THEN OneHour(cur.rain_1h) ELSE OneHour(cur.snow_1h)

Incomplete(cur, w) ==
    \/ cur.temp = None \/ cur.pressure = None \/ cur.dt = None
    \/ cur.humidity = None \/ cur.uvi = None
    \/ w.id = None \/ w.main = None \/ w.description = None

NewRow(logs, bp, cur, w) ==
    [id |-> Len(logs) + 1,
     date_time |-> cur.dt, body_part |-> bp, temperature |-> cur.temp,
     pressure |-> cur.pressure, humidity |-> cur.humidity,
     precipitation |-> Precipitation(cur), uv_index |-> cur.uvi,
     weather_id |-> w.id, weather_main |-> w.main,
     weather_description |-> w.description]

execute_insert_no_rollback(logs, row, db) ==
    IF db \in {"ok", "commit_error"} THEN Append(logs, row) ELSE logs
execute_insert(logs, row, db) ==
    IF db = "ok" THEN Append(logs, row) ELSE logs

\* ------------------------------------------------------------------- state
Init ==
    /\ settings \in {s \in SettingsCandidates : validate_settings(s)}
    /\ pc = [p \in Procs |-> "idle"]
    /\ caller = [p \in Procs |-> "none"]
    /\ body_part = [p \in Procs |-> ""]
    /\ api_key = [p \in Procs |-> ""]
    /\ attempt = [p \in Procs |-> 0]
    /\ backoff = [p \in Procs |-> 0]
    /\ sleepFor = [p \in Procs |-> 0]
    /\ response = [p \in Procs |-> NoResponse]
    /\ gw = [p \in Procs |-> GwPending]
    /\ result = [p \in Procs |-> NoResult]
    /\ owie_logs = <<>>
    /\ tableExists = FALSE
    /\ clients = [p \in Procs |-> 0]
    /\ gets = [p \in Procs |-> 0]
    /\ sleeps = [p \in Procs |-> <<>>]
    /\ outcomes = [p \in Procs |-> <<>>]
    /\ gwCalls = [p \in Procs |-> 0]
    /\ rowId = [p \in Procs |-> {}]

\* get_weather_data from its entry to its first await: the api_key check,
\* the locals, the client, and the GET of attempt 1.
EnterGetWeatherData(p, key) ==
    /\ api_key' = [api_key EXCEPT ![p] = key]
    /\ IF ApiKeyMissing(key)
       THEN /\ gw' = [gw EXCEPT ![p] = GwRaise("ValueError")]
            /\ pc' = [pc EXCEPT ![p] = "done"]
            /\ UNCHANGED <<attempt, backoff, clients, gets>>
       ELSE /\ backoff' = [backoff EXCEPT ![p] = InitialBackoff]
            /\ clients' = [clients EXCEPT ![p] = @ + 1]
            /\ attempt' = [attempt EXCEPT ![p] = 1]
            /\ gets' = [gets EXCEPT ![p] = @ + 1]
            /\ pc' = [pc EXCEPT ![p] = "awaiting_get"]
            /\ UNCHANGED gw
    /\ UNCHANGED <<sleepFor, response, sleeps, outcomes>>

\* log_owie from the return (or exception) of get_weather_data to its end;
\* g is how get_weather_data ended.  No await in between.
ResumeLogOwie(p, g) ==
    IF g.kind \in {"ValueError", "RuntimeError"}
    THEN /\ result' = [result EXCEPT ![p] = Raised(g.kind)]
         /\ UNCHANGED dbVars
    ELSE IF g.kind = "returned_none"
    THEN /\ result' = [result EXCEPT ![p] = Raised("AttributeError")]
         /\ UNCHANGED dbVars
    ELSE
    LET cur == g.value.current
        lst == WeatherList(cur)
    IN  IF lst = <<>>
        THEN /\ result' = [result EXCEPT ![p] = Raised("IndexError")]
             /\ UNCHANGED dbVars
        ELSE IF Incomplete(cur, lst[1])
        THEN /\ result' = [result EXCEPT ![p] = Raised("RuntimeError")]
             /\ UNCHANGED dbVars
        ELSE \E db \in DbOutcomes :
               LET row == NewRow(owie_logs, body_part[p], cur, lst[1])
               IN  /\ tableExists' = (tableExists \/ db # "setup_error")
                   /\ owie_logs' = execute_insert(owie_logs, row, db)
                   /\ rowId' = [rowId EXCEPT ![p] =
                                   IF Len(owie_logs') > Len(owie_logs)
                                   THEN @ \cup (Len(owie_logs) + 1 .. Len(owie_logs'))
                                   ELSE @]
                   /\ result' = [result EXCEPT ![p] =
                                   IF db = "ok"
                                   THEN Success(body_part[p], cur.temp, cur.pressure)
                                   ELSE Raised("RuntimeError")]

\* get_weather_data ends with g: its caller goes on.
Finish(p, g) ==
    /\ gw' = [gw EXCEPT ![p] = g]
    /\ pc' = [pc EXCEPT ![p] = "done"]
    /\ IF caller[p] = "log_owie"
       THEN ResumeLogOwie(p, g)
       ELSE UNCHANGED <<result, owie_logs, tableExists, rowId>>

\* ----------------------------------------------------------------- actions
\* A direct call get_weather_data(api_key, lat, lon).
CallGetWeatherData(p) ==
    /\ pc[p] = "idle"
    /\ \E key \in ApiKeys :
         /\ caller' = [caller EXCEPT ![p] = "direct"]
         /\ EnterGetWeatherData(p, key)
    /\ UNCHANGED <<settings, body_part, result, gwCalls, dbVars>>

\* POST /owie/{body_part}, up to the first await.
LogOwie(p) ==
    /\ pc[p] = "idle"
    /\ \E bp \in BodyParts :
         /\ caller' = [caller EXCEPT ![p] = "log_owie"]
         /\ body_part' = [body_part EXCEPT ![p] = bp]
         /\ IF SettingsMissing(settings)
            THEN /\ result' = [result EXCEPT ![p] = ErrorResult]
                 /\ pc' = [pc EXCEPT ![p] = "done"]
                 /\ UNCHANGED <<gwVars, gwCalls>>
            ELSE /\ gwCalls' = [gwCalls EXCEPT ![p] = @ + 1]
                 /\ EnterGetWeatherData(p, settings.ow_api_key)
                 /\ result' = [result EXCEPT ![p] =
                                 IF ApiKeyMissing(settings.ow_api_key)
                                 THEN Raised("ValueError") ELSE @]
    /\ UNCHANGED <<settings, dbVars>>

\* The awaited client.get completes, and the code runs to its next await.
GetCompletes(p) ==
    /\ pc[p] = "awaiting_get"
    /\ \E o \in GetOutcomes :
         /\ outcomes' = [outcomes EXCEPT ![p] = Append(@, IF o.kind = "response"
                                                           THEN o.status_code ELSE 0)]
         /\ IF o.kind = "response"
            THEN /\ response' = [response EXCEPT ![p] =
                                    [status_code |-> o.status_code, json |-> o.json]]
                 /\ IF o.status_code = 200
                    THEN Finish(p, GwReturn(o.json))
                    ELSE Finish(p, GwRaise("RuntimeError"))
                 /\ UNCHANGED <<sleepFor, sleeps>>
            ELSE IF LastAttempt(attempt[p])
            THEN /\ Finish(p, GwRaise("RuntimeError"))
                 /\ UNCHANGED <<response, sleepFor, sleeps>>
            ELSE \E jitter \in Jitters :
                   /\ sleepFor' = [sleepFor EXCEPT ![p] = backoff[p] + jitter]
                   /\ sleeps' = [sleeps EXCEPT ![p] = Append(@, backoff[p])]
                   /\ pc' = [pc EXCEPT ![p] = "sleeping"]
                   /\ UNCHANGED <<response, gw, result, dbVars>>
    /\ UNCHANGED <<settings, caller, body_part, api_key, attempt, backoff,
                   clients, gets, gwCalls>>

\* The awaited asyncio.sleep completes: backoff doubles and the for loop
\* takes its next value, or is exhausted and the function falls off its end.
SleepCompletes(p) ==
    /\ pc[p] = "sleeping"
    /\ backoff' = [backoff EXCEPT ![p] = NextBackoff(@)]
    /\ sleepFor' = [sleepFor EXCEPT ![p] = 0]
    /\ IF attempt[p] < Retries
       THEN /\ attempt' = [attempt EXCEPT ![p] = @ + 1]
            /\ gets' = [gets EXCEPT ![p] = @ + 1]
            /\ pc' = [pc EXCEPT ![p] = "awaiting_get"]
            /\ UNCHANGED <<gw, result, dbVars>>
       ELSE /\ Finish(p, GwReturnNone)
            /\ UNCHANGED <<attempt, gets>>
    /\ UNCHANGED <<settings, caller, body_part, api_key, response, clients,
                   sleeps, outcomes, gwCalls>>

\* The server: requests to POST /owie/{body_part}.
Next ==
    \E p \in Procs :
        \/ LogOwie(p)
        \/ GetCompletes(p)
        \/ SleepCompletes(p)

Spec == Init /\ [][Next]_vars

\* get_weather_data on its own, called with any api_key.
NextGW ==
    \E p \in Procs :
        \/ CallGetWeatherData(p)
        \/ GetCompletes(p)
        \/ SleepCompletes(p)

SpecGW == Init /\ [][NextGW]_vars

\* ------------------------------------------------------------------ claims
Called(p) == caller[p] # "none"
RequestErrors(n) == [i \in 1..n |-> 0]
Last(s) == s[Len(s)]
SumSeq(s) == LET RECURSIVE Sum(_)
                 Sum(i) == IF i = 0 THEN 0 ELSE s[i] + Sum(i - 1)
             IN  Sum(Len(s))

C1_Safe ==
    \A p \in Procs :
        (Called(p) /\ api_key[p] # "") =>
            /\ gets[p] \in 1..Retries
            /\ Len(outcomes[p]) \in {gets[p] - 1, gets[p]}
            /\ gw[p].kind \in {"pending", "returned", "RuntimeError"}
            /\ (pc[p] = "done") = (gw[p].kind # "pending")
            /\ \A k \in 1..Retries :
                 outcomes[p] = RequestErrors(k - 1) \o <<200>> =>
                    /\ gw[p].kind = "returned"
                    /\ gw[p].value = response[p].json
                    /\ response[p].status_code = 200
                    /\ gets[p] = k
            /\ outcomes[p] = RequestErrors(Retries) =>
                    /\ gw[p].kind = "RuntimeError"
                    /\ gets[p] = Retries

C1_Pending(p) == Called(p) /\ api_key[p] # "" /\ pc[p] # "done"

\* Awaits still ahead of the call, at most.
C1_Remaining(p) ==
    CASE pc[p] = "awaiting_get" -> 2 * (Retries - attempt[p]) + 1
      [] pc[p] = "sleeping" -> 2 * (Retries - attempt[p])
      [] OTHER -> 0

\* A pending call waits on an await that can complete.
C1_NotStuck ==
    \A p \in Procs :
        C1_Pending(p) => ENABLED (GetCompletes(p) \/ SleepCompletes(p))

\* Every step of a pending call brings it closer to its end.
C1_Progress ==
    \A p \in Procs :
        C1_Pending(p) =>
            \/ UNCHANGED <<pc[p], attempt[p], gets[p], gw[p]>>
            \/ C1_Remaining(p)' < C1_Remaining(p)

\* C1: a call of get_weather_data with a non-empty api_key ends, after at
\* most 5 GETs; if attempts 1..k-1 fail with RequestError and attempt k gets
\* status 200 it returns the JSON body of attempt k; if all 5 attempts fail
\* with RequestError it raises RuntimeError after exactly 5 GETs; it never
\* falls off the loop returning None.
C1_RetryContract ==
    /\ []C1_Safe
    /\ []C1_NotStuck
    /\ [][C1_Progress]_vars

C1_Witness ==
    \E p, q \in Procs :
        /\ outcomes[p] = RequestErrors(Retries - 1) \o <<200>>
        /\ gw[p] = GwReturn(BodySnow)
        /\ outcomes[q] = RequestErrors(Retries)
        /\ gw[q].kind = "RuntimeError"

\* C2: a 429 response on an attempt before the 5th does not fail the call:
\* the request is retried after a backoff sleep.
C2_RateLimitRetried ==
    \A p \in Procs :
        (Called(p) /\ outcomes[p] # <<>> /\ Last(outcomes[p]) = 429
                   /\ Len(outcomes[p]) < Retries)
            => gw[p].kind # "RuntimeError"

\* C3: get_weather_data ends in RuntimeError only when all 5 attempts were
\* made or the last response had status 429.
C3_RuntimeErrorOnlyAfterRetries ==
    \A p \in Procs :
        gw[p].kind = "RuntimeError" =>
            attempt[p] = Retries \/ response[p].status_code = 429

\* C4: get_weather_data called with an empty api_key raises ValueError
\* before any client is opened: no GET is issued and no sleep happens.
C4_EmptyKeyValueError ==
    \A p \in Procs :
        (Called(p) /\ api_key[p] = "") =>
            /\ pc[p] = "done"
            /\ gw[p].kind = "ValueError"
            /\ clients[p] = 0
            /\ gets[p] = 0
            /\ sleeps[p] = <<>>
            /\ outcomes[p] = <<>>

C4_Witness ==
    \E p \in Procs :
        caller[p] = "direct" /\ api_key[p] = "" /\ gw[p].kind = "ValueError"

Succeeded == {p \in Procs : result[p].kind = "success"}

\* C5: a request that returns the success message has made exactly one
\* get_weather_data call and committed exactly one row, holding its
\* body_part and the dt, temp, pressure, humidity, uvi and weather fields of
\* the response it fetched; the number of rows equals the number of
\* successful requests, and a request that raised or returned the error
\* value added no row.
C5_OneRowPerSuccess ==
    /\ Len(owie_logs) = Cardinality(Succeeded)
    /\ \A p \in Procs : result[p].kind # "success" => rowId[p] = {}
    /\ \A p, q \in Procs : p # q => rowId[p] \cap rowId[q] = {}
    /\ \A p \in Succeeded :
         /\ gwCalls[p] = 1
         /\ gw[p].kind = "returned"
         /\ Cardinality(rowId[p]) = 1
         /\ result[p].body_part = Some(body_part[p])
         /\ \A i \in rowId[p] :
              LET row == owie_logs[i]
                  cur == gw[p].value.current
              IN  /\ i \in 1..Len(owie_logs)
                  /\ row.body_part = body_part[p]
                  /\ row.date_time = cur.dt
                  /\ row.temperature = cur.temp
                  /\ row.pressure = cur.pressure
                  /\ row.humidity = cur.humidity
                  /\ row.uv_index = cur.uvi
                  /\ row.weather_id = cur.weather[1].id
                  /\ row.weather_main = cur.weather[1].main
                  /\ row.weather_description = cur.weather[1].description
                  /\ row.date_time # None /\ row.weather_id # None

C5_Witness ==
    \E p, q \in Procs :
        /\ p # q
        /\ result[p].kind = "success" /\ result[q].kind = "success"
        /\ body_part[p] = "knee" /\ body_part[q] = "back"
        /\ gw[p].value = BodyClear /\ gw[q].value = BodySnow
        /\ rowId[p] = {2} /\ rowId[q] = {1}
        /\ Len(owie_logs) = 2

====
